---- MODULE Spec2Model ----
(***************************************************************************)
(* Model of the orchester service (src/app/routers.py, src/app/utils.py).  *)
(*                                                                         *)
(* The service keeps no state of its own: everything it knows lives in    *)
(* the docker engine it drives with one command at a time, and in the      *)
(* detached "sleep T && docker stop N && docker rm N" shells it spawns.    *)
(* The model therefore has three parts:                                    *)
(*   - the engine: the containers ever created and the local image cache; *)
(*   - the expiry shells, one per start with time_alive > 0;               *)
(*   - the request handlers.  A handler blocks its server process on each  *)
(*     subprocess.run, so one server process serves one request at a time; *)
(*     requests served by different server processes, and the expiry       *)
(*     shells, interleave between engine commands.  Each engine command is *)
(*     one atomic step.                                                    *)
(***************************************************************************)
EXTENDS Integers, Sequences, FiniteSets, TLC

VARIABLES
    containers,   \* engine: container id -> record, for every id handed out
    images,       \* engine: image references in the local cache
    timers,       \* expiry shells: container id they were spawned for -> record
    workers,      \* server processes: position and locals of the request served
    call          \* the last call of a utils.py function made on its own

vars == <<containers, images, timers, workers, call>>

-----------------------------------------------------------------------------
(* Bounds *)

\* start requests admitted past validation and pull, over a whole run
MaxStarts == 2
\* number of host ports of the range that the model keeps
RangeSize == 2
\* longest exercise name handed to sanitize_container_name on its own
MaxNameLen == 3

(* Program constants *)

RangeStart == 50000
MaxSeconds == 15552000
DefaultPort == 80

RangeEnd == RangeStart + RangeSize

\* server processes serving requests
Workers == {"w1", "w2"}

\* request inputs
ExerciseNames == {<< >>, <<"x">>, <<"!">>, <<"_">>}
TimeAlives == {-1, 0, 5, MaxSeconds + 1}
ImageLinks == {"demo", "ghost"}

\* what the registry serves
Registry == {"demo"}

\* status codes
OK == 200
BadRequest == 400
NotFound == 404
ServerError == 500
\* an exception that is no HTTPException (find_free_port's RuntimeError)
NotHttp == 1

NoPort == 0
NoId == 0
NoImage == "none"
EmptyOutput == ""
\* the image id read from an empty inspect output
NoImageId == << >>

\* the lycosidae.port label docker inspect prints for an image
PortLabel(image) == IF image = "demo" THEN "<no value>" ELSE EmptyOutput

-----------------------------------------------------------------------------
(* utils.py *)

AllowedChars == {"x", "y", "X", "-", "_", "0"}

\* a character class whose hyphen is not taken literally
SanitizeCharNoHyphen(ch) == IF ch \in AllowedChars \ {"-"} THEN ch ELSE "_"

SanitizeChar(ch) == IF ch \in AllowedChars THEN ch ELSE "_"

\* re.sub(r'[^a-zA-Z0-9_-]', '_', name); the empty name is rejected
NameRejected(name) == name = << >>
sanitize_container_name(name) == [i \in 1..Len(name) |-> SanitizeChar(name[i])]

\* the check of the docstring: "greater than 0"
TimeAliveRejectedPositive(time_alive) == time_alive <= 0 \/ time_alive > MaxSeconds

\* TRUE when validate_time_alive raises
TimeAliveRejected(time_alive) == time_alive < 0 \/ time_alive > MaxSeconds
\* what validate_time_alive returns when it does not raise
validate_time_alive(time_alive) == time_alive

\* the lines of "docker ps -a": the stopped containers too
DockerPsAllPorts ==
    {[host |-> containers[c].host_port, inner |-> containers[c].container_port] :
        c \in {d \in DOMAIN containers : containers[d].status # "removed"}}

\* a line of "docker ps --format {{.Ports}}" for every running container
DockerPsPorts ==
    {[host |-> containers[c].host_port, inner |-> containers[c].container_port] :
        c \in {d \in DOMAIN containers : containers[d].status = "running"}}

\* re.findall(r':(\d+)->', line) over the lines
UsedPorts(lines) == {l.host : l \in lines}

\* a scan over range(start + 1, end)
RECURSIVE ScanPortsSkipFirst(_, _, _)
ScanPortsSkipFirst(port, end, used) ==
    IF port + 1 >= end THEN NoPort
    ELSE IF port + 1 \notin used THEN port + 1
    ELSE ScanPortsSkipFirst(port + 1, end, used)

\* for port in range(start, end): if port not in used_ports: return port
RECURSIVE ScanPorts(_, _, _)
ScanPorts(port, end, used) ==
    IF port >= end THEN NoPort
    ELSE IF port \notin used THEN port
    ELSE ScanPorts(port + 1, end, used)

find_free_port(start, end) == ScanPorts(start, end, UsedPorts(DockerPsPorts))

-----------------------------------------------------------------------------
(* The docker engine, as far as the service's commands see it *)

\* int(label_value), for the labels that are numbers
IsNumber(label) == label \in {"8080"}
ToInt(label) == IF label = "8080" THEN 8080 ELSE 0

\* routers.py: the container port from the image's lycosidae.port label
LabelPort(label) ==
    IF label # EmptyOutput /\ label # "<no value>"
    THEN IF IsNumber(label) THEN ToInt(label) ELSE DefaultPort
    ELSE DefaultPort

\* the id docker reports for an image reference
ImageIdOf(ref) == <<"sha256", ref>>

Exists(c) == c \in DOMAIN containers /\ containers[c].status # "removed"
Running(c) == c \in DOMAIN containers /\ containers[c].status = "running"
Removed(c) == c \in DOMAIN containers /\ containers[c].status = "removed"

\* a name lookup that sees the running containers only
ByNameRunning(name) ==
    {c \in DOMAIN containers :
        containers[c].status = "running" /\ containers[c].name = name}

\* the existing containers a name resolves to (the engine keeps names unique)
ByName(name) == {c \in DOMAIN containers : Exists(c) /\ containers[c].name = name}

\* the id the engine gives the next container
NextId == Cardinality(DOMAIN containers) + 1

\* docker stop succeeds on every existing container, running or not
DockerStopOk(c) == Exists(c)
\* docker rm (without -f) refuses a running container
DockerRmOk(c) == Exists(c) /\ containers[c].status # "running"

\* the containers after a successful docker stop / docker rm of c issued by
\* a request handler (by = 0) or by the expiry shell spawned for container by
AfterStop(c, by) ==
    [containers EXCEPT ![c].status = IF @ = "running" THEN "exited" ELSE @,
                       ![c].manual = @ \/ by = NoId,
                       ![c].expiry = IF by = NoId THEN @ ELSE @ \cup {by}]
AfterRm(c, by) ==
    [containers EXCEPT ![c].status = "removed",
                       ![c].manual = @ \/ by = NoId,
                       ![c].expiry = IF by = NoId THEN @ ELSE @ \cup {by}]

\* docker inspect --format={{.Image}} <container>: empty output for no container
DockerInspectImage(c) ==
    IF Exists(c) THEN ImageIdOf(containers[c].image) ELSE NoImageId

\* docker rmi -f: needs a cached image of that id that no running container uses
RmiTargets(image_id) == {ref \in images : ImageIdOf(ref) = image_id}
DockerRmiOk(image_id) ==
    /\ RmiTargets(image_id) # {}
    /\ \A c \in DOMAIN containers :
          Running(c) => containers[c].image \notin RmiTargets(image_id)

-----------------------------------------------------------------------------
(* Request handlers *)

Idle ==
    [pc |-> "idle", op |-> "none", container_name |-> << >>, time_alive |-> 0,
     image_link |-> NoImage, host_port |-> NoPort, container_port |-> NoPort,
     container_id |-> NoId, image_id |-> NoImageId, code |-> 0,
     raised |-> 0, issued |-> {}, gone |-> FALSE]

\* except Exception as e: raise HTTPException(status_code=500, ...) wraps every
\* error raised inside the handler's try block, the HTTPExceptions included
Raise(status) == ServerError

\* the handler ends: only the response and what the request was stay
Done(op, gone, code, id, port, ta, image_id) ==
    [Idle EXCEPT !.pc = "done", !.op = op, !.gone = gone,
                 !.code = code, !.container_id = id, !.host_port = port,
                 !.time_alive = ta, !.image_id = image_id]

\* the handler ends with the error response for an exception of that status
Fail(op, gone, id, status) ==
    [Done(op, gone, Raise(status), id, NoPort, 0, NoImageId) EXCEPT !.raised = status]

\* the same, for a start that had issued these engine commands
FailStart(status, issued) ==
    [Fail("start", FALSE, NoId, status) EXCEPT !.issued = issued]

\* starts that have been admitted and may still create a container
InFlight == {w \in Workers : workers[w].pc \in {"port", "run"}}
\* a start is followed past its pull while fewer than MaxStarts containers
\* exist or may come, or when the port range is full and the start will fail
Admissible ==
    \/ Cardinality(DOMAIN containers) + Cardinality(InFlight) < MaxStarts
    \/ find_free_port(RangeStart, RangeEnd) = NoPort
\* a port scan that finds a port is followed while containers may be created
Creatable ==
    Cardinality(DOMAIN containers)
        + Cardinality({w \in Workers : workers[w].pc = "run"}) < MaxStarts

\* a start that pulls the image before it validates the request
StartRequestPullFirst(w, exercise_name, time_alive, image_link) ==
    /\ workers[w].pc = "idle"
    /\ IF image_link \notin Registry
       THEN /\ workers' = [workers EXCEPT ![w] = FailStart(NotFound, {"pull"})]
            /\ UNCHANGED images
       ELSE IF NameRejected(exercise_name) \/ TimeAliveRejected(time_alive)
       THEN /\ workers' = [workers EXCEPT ![w] = FailStart(BadRequest, {"pull"})]
            /\ images' = images \cup {image_link}
       ELSE /\ Admissible
            /\ images' = images \cup {image_link}
            /\ workers' = [workers EXCEPT ![w] =
                   [Idle EXCEPT !.pc = "port", !.op = "start",
                      !.container_name = sanitize_container_name(exercise_name),
                      !.time_alive = validate_time_alive(time_alive),
                      !.image_link = image_link,
                      !.issued = {"pull"},
                      !.container_port = LabelPort(PortLabel(image_link))]]
    /\ UNCHANGED <<containers, timers>>
    /\ UNCHANGED call

\* start_docker up to the port scan: sanitize, validate, docker pull, and the
\* read of the image's port label
StartRequest(w, exercise_name, time_alive, image_link) ==
    /\ workers[w].pc = "idle"
    /\ IF NameRejected(exercise_name) \/ TimeAliveRejected(time_alive)
       THEN /\ workers' = [workers EXCEPT ![w] = FailStart(BadRequest, {})]
            /\ UNCHANGED images
       ELSE IF image_link \notin Registry
       THEN /\ workers' = [workers EXCEPT ![w] = FailStart(NotFound, {"pull"})]
            /\ UNCHANGED images
       ELSE /\ Admissible
            /\ images' = images \cup {image_link}
            /\ workers' = [workers EXCEPT ![w] =
                   [Idle EXCEPT !.pc = "port", !.op = "start",
                      !.container_name = sanitize_container_name(exercise_name),
                      !.time_alive = validate_time_alive(time_alive),
                      !.image_link = image_link,
                      !.issued = {"pull"},
                      !.container_port = LabelPort(PortLabel(image_link))]]
    /\ UNCHANGED <<containers, timers>>
    /\ UNCHANGED call

\* start_docker: host_port = find_free_port(50000, 60000)
StartFindPort(w) ==
    /\ workers[w].pc = "port"
    /\ LET port == find_free_port(RangeStart, RangeEnd) IN
       /\ port # NoPort => Creatable
       /\ workers' = [workers EXCEPT ![w] =
             IF port = NoPort
             THEN FailStart(NotHttp, workers[w].issued)
             ELSE [@ EXCEPT !.pc = "run", !.host_port = port]]
    /\ UNCHANGED <<containers, images, timers>>
    /\ UNCHANGED call

\* the container docker run creates for worker w, in the given status
NewContainer(w, status) ==
    [name |-> workers[w].container_name, image |-> workers[w].image_link,
     host_port |-> workers[w].host_port,
     container_port |-> workers[w].container_port,
     status |-> status, ran |-> status = "running",
     time_alive |-> workers[w].time_alive,
     manual |-> FALSE, expiry |-> {}]

\* the expiry shell: sleep T && docker stop NAME && docker rm NAME
NewTimer(w) == [name |-> workers[w].container_name, st |-> "sleeping"]

\* a start that takes the else branch of "if time_alive > 0" for every lifetime
ScheduleNever(w, id) == timers

\* time_alive > 0: spawn the expiry shell for the container just started
Schedule(w, id) ==
    IF workers[w].time_alive > 0 THEN timers @@ (id :> NewTimer(w)) ELSE timers

\* start_docker from docker run on: run, then the expiry shell, then the response.
\* docker run refuses a name in use; a host port already bound makes it fail
\* after the container was created, and the container stays behind.
StartRun(w) ==
    /\ workers[w].pc = "run"
    /\ LET id == NextId
           bound == {containers[c].host_port : c \in {d \in DOMAIN containers : Running(d)}}
       IN
       IF ByName(workers[w].container_name) # {}
       THEN /\ workers' = [workers EXCEPT ![w] =
                   FailStart(ServerError, workers[w].issued \cup {"run"})]
            /\ UNCHANGED <<containers, timers>>
       ELSE IF workers[w].host_port \in bound
       THEN /\ containers' = containers @@ (id :> NewContainer(w, "created"))
            /\ workers' = [workers EXCEPT ![w] =
                   FailStart(ServerError, workers[w].issued \cup {"run"})]
            /\ UNCHANGED timers
       ELSE /\ containers' = containers @@ (id :> NewContainer(w, "running"))
            /\ timers' = Schedule(w, id)
            /\ workers' = [workers EXCEPT ![w] =
                   [Done("start", FALSE, OK, id, workers[w].host_port,
                         workers[w].time_alive, NoImageId)
                      EXCEPT !.issued = workers[w].issued \cup {"run"}]]
    /\ UNCHANGED images
    /\ UNCHANGED call

\* the container ids a client holds: those a start has returned
Returned == {c \in DOMAIN containers : containers[c].ran}

\* shutdown_docker: docker stop
ShutdownStop(w, id) ==
    /\ workers[w].pc = "idle"
    /\ id \in Returned
    /\ IF DockerStopOk(id)
       THEN /\ containers' = AfterStop(id, NoId)
            /\ workers' = [workers EXCEPT ![w] =
                   [Idle EXCEPT !.pc = "rm", !.op = "shutdown", !.container_id = id]]
       ELSE /\ workers' = [workers EXCEPT ![w] = Fail("shutdown", Removed(id), id, NotFound)]
            /\ UNCHANGED containers
    /\ UNCHANGED <<images, timers>>
    /\ UNCHANGED call

\* a shutdown that answers after docker stop, without the docker rm
ShutdownRmSkipped(w) ==
    /\ workers[w].pc = "rm"
    /\ workers' = [workers EXCEPT ![w] =
           Done("shutdown", FALSE, OK, workers[w].container_id, NoPort, 0, NoImageId)]
    /\ UNCHANGED <<containers, images, timers>>
    /\ UNCHANGED call

\* shutdown_docker: docker rm, then the response
ShutdownRm(w) ==
    /\ workers[w].pc = "rm"
    /\ LET id == workers[w].container_id IN
       IF DockerRmOk(id)
       THEN /\ containers' = AfterRm(id, NoId)
            /\ workers' = [workers EXCEPT ![w] =
                   Done("shutdown", FALSE, OK, id, NoPort, 0, NoImageId)]
       ELSE /\ workers' = [workers EXCEPT ![w] = Fail("shutdown", FALSE, id, ServerError)]
            /\ UNCHANGED containers
    /\ UNCHANGED <<images, timers>>
    /\ UNCHANGED call

\* delete_docker: docker stop, its errors ignored
DeleteStop(w, id) ==
    /\ workers[w].pc = "idle"
    /\ id \in Returned
    /\ containers' = IF DockerStopOk(id) THEN AfterStop(id, NoId) ELSE containers
    /\ workers' = [workers EXCEPT ![w] =
           [Idle EXCEPT !.pc = "drm", !.op = "delete", !.container_id = id,
                        !.gone = Removed(id)]]
    /\ UNCHANGED <<images, timers>>
    /\ UNCHANGED call

\* delete_docker: docker rm
DeleteRm(w) ==
    /\ workers[w].pc = "drm"
    /\ LET id == workers[w].container_id IN
       IF DockerRmOk(id)
       THEN /\ containers' = AfterRm(id, NoId)
            /\ workers' = [workers EXCEPT ![w].pc = "inspect"]
       ELSE /\ workers' = [workers EXCEPT ![w] =
                   Fail("delete", workers[w].gone, id, NotFound)]
            /\ UNCHANGED containers
    /\ UNCHANGED <<images, timers>>
    /\ UNCHANGED call

\* delete_docker: docker inspect --format={{.Image}} of the container
DeleteInspect(w) ==
    /\ workers[w].pc = "inspect"
    /\ workers' = [workers EXCEPT ![w].pc = "rmi",
                                  ![w].image_id = DockerInspectImage(workers[w].container_id)]
    /\ UNCHANGED <<containers, images, timers>>
    /\ UNCHANGED call

\* delete_docker: docker rmi -f of the image id read, then the response
DeleteRmi(w) ==
    /\ workers[w].pc = "rmi"
    /\ LET id == workers[w].container_id
           image_id == workers[w].image_id
       IN
       IF DockerRmiOk(image_id)
       THEN /\ images' = images \ RmiTargets(image_id)
            /\ workers' = [workers EXCEPT ![w] =
                   Done("delete", workers[w].gone, OK, id, NoPort, 0, image_id)]
       ELSE /\ workers' = [workers EXCEPT ![w] =
                   Fail("delete", workers[w].gone, id, ServerError)]
            /\ UNCHANGED images
    /\ UNCHANGED <<containers, timers>>
    /\ UNCHANGED call

\* the response is sent and the server process takes the next request
Return(w) ==
    /\ workers[w].pc = "done"
    /\ workers' = [workers EXCEPT ![w] = Idle]
    /\ UNCHANGED <<containers, images, timers>>
    /\ UNCHANGED call

-----------------------------------------------------------------------------
(* Expiry shells *)

\* sleep has returned: docker stop NAME; a failure ends the && chain
TimerFire(t) ==
    /\ t \in DOMAIN timers
    /\ timers[t].st = "sleeping"
    /\ LET target == ByName(timers[t].name) IN
       IF target # {}
       THEN LET c == CHOOSE d \in target : TRUE IN
            /\ containers' = AfterStop(c, t)
            /\ timers' = [timers EXCEPT ![t].st = "stopped"]
       ELSE /\ timers' = [timers EXCEPT ![t].st = "failed"]
            /\ UNCHANGED containers
    /\ UNCHANGED <<images, workers>>
    /\ UNCHANGED call

\* docker rm NAME, and the shell exits
TimerRm(t) ==
    /\ t \in DOMAIN timers
    /\ timers[t].st = "stopped"
    /\ LET target == {c \in ByName(timers[t].name) : DockerRmOk(c)} IN
       IF target # {}
       THEN LET c == CHOOSE d \in target : TRUE IN
            /\ containers' = AfterRm(c, t)
            /\ timers' = [timers EXCEPT ![t].st = "done"]
       ELSE /\ timers' = [timers EXCEPT ![t].st = "failed"]
            /\ UNCHANGED containers
    /\ UNCHANGED <<images, workers>>
    /\ UNCHANGED call

-----------------------------------------------------------------------------

\* no utils.py call made yet
NoCall ==
    [fn |-> "none", name |-> << >>, time_alive |-> 0, rejected |-> FALSE,
     out_name |-> << >>, out_time |-> 0]

Init ==
    /\ containers = << >>
    /\ images = {}
    /\ timers = << >>
    /\ workers = [w \in Workers |-> Idle]
    /\ call = NoCall

Ids == 1..MaxStarts

Next ==
    \/ \E w \in Workers, n \in ExerciseNames, t \in TimeAlives, i \in ImageLinks :
          StartRequest(w, n, t, i)
    \/ \E w \in Workers : StartFindPort(w)
    \/ \E w \in Workers : StartRun(w)
    \/ \E w \in Workers, id \in Ids : ShutdownStop(w, id)
    \/ \E w \in Workers : ShutdownRm(w)
    \/ \E w \in Workers, id \in Ids : DeleteStop(w, id)
    \/ \E w \in Workers : DeleteRm(w)
    \/ \E w \in Workers : DeleteInspect(w)
    \/ \E w \in Workers : DeleteRmi(w)
    \/ \E w \in Workers : Return(w)
    \/ \E t \in Ids : TimerFire(t)
    \/ \E t \in Ids : TimerRm(t)

Spec == Init /\ [][Next]_vars

\* the expiry shells are processes of the host: each one runs on
Fairness == \A t \in Ids : WF_vars(TimerFire(t)) /\ WF_vars(TimerRm(t))

FairSpec == Spec /\ Fairness

-----------------------------------------------------------------------------
(* utils.py functions called on their own *)

\* characters of names: letters, a digit, the hyphen, the underscore, and
\* characters outside [a-zA-Z0-9_-]
Chars == {"x", "X", "0", "-", "_", "!", " "}

RECURSIVE NamesOfLen(_)
NamesOfLen(n) ==
    IF n = 0 THEN {<< >>}
    ELSE {Append(name, ch) : name \in NamesOfLen(n - 1), ch \in Chars}

Names == UNION {NamesOfLen(n) : n \in 0..MaxNameLen}

\* lifetimes around both ends of the accepted interval
Lifetimes ==
    {-2, -1, 0, 1, 2, 5, 3600, MaxSeconds - 1, MaxSeconds, MaxSeconds + 1,
     MaxSeconds + 2, 2 * MaxSeconds}

\* sanitize_container_name(name): raises on the empty name, else the substitution
CallSanitize(name) ==
    /\ call' = [NoCall EXCEPT !.fn = "sanitize", !.name = name,
                   !.rejected = NameRejected(name),
                   !.out_name = IF NameRejected(name) THEN << >>
                                ELSE sanitize_container_name(name)]
    /\ UNCHANGED <<containers, images, timers, workers>>

\* validate_time_alive(time_alive): raises outside [0, max_seconds], else returns
CallValidate(time_alive) ==
    /\ call' = [NoCall EXCEPT !.fn = "validate", !.time_alive = time_alive,
                   !.rejected = TimeAliveRejected(time_alive),
                   !.out_time = IF TimeAliveRejected(time_alive) THEN 0
                                ELSE validate_time_alive(time_alive)]
    /\ UNCHANGED <<containers, images, timers, workers>>

UtilNext ==
    \/ \E name \in Names : CallSanitize(name)
    \/ \E time_alive \in Lifetimes : CallValidate(time_alive)

UtilSpec == Init /\ [][UtilNext]_vars

-----------------------------------------------------------------------------
(* Claims *)

PortRange == RangeStart..(RangeEnd - 1)

\* the starts that have chosen a host port and not yet run with it
Starting == {w \in Workers : workers[w].pc = "run"}

RunningOn(p) == {c \in DOMAIN containers : Running(c) /\ containers[c].host_port = p}
StartingOn(p) == {w \in Starting : workers[w].host_port = p}

\* C1: no host port is held by more than one Starting or Running instance;
\* two concurrent starts never both choose the same host port and go on to
\* run with it.
C1_PortExclusive ==
    \A p \in PortRange : Cardinality(RunningOn(p)) + Cardinality(StartingOn(p)) <= 1

\* the timers whose instance a shutdown or delete removed before the timer
\* had done anything to it
OutlivedByTimer ==
    {t \in DOMAIN timers :
        Removed(t) /\ containers[t].manual /\ containers[t].expiry = {}}

\* C2: when an instance with time_alive > 0 is torn down by shutdown or delete
\* before its time-to-live elapses, its expiry timer is cancelled: it is not
\* left scheduled and its stop + remove never executes.
C2_CancelledOnTeardown ==
    \A t \in OutlivedByTimer : timers[t].st = "cancelled"

\* C3: a shutdown or delete of an instance that was already removed when the
\* call came in (by an earlier call or by expiry) reports success.
C3_TeardownIdempotent ==
    \A w \in Workers :
        (/\ workers[w].pc = "done"
         /\ workers[w].op \in {"shutdown", "delete"}
         /\ workers[w].gone)
        => workers[w].code = OK

\* C4: for one instance, the manual path and the expiry path never both
\* execute teardown steps: at most one of them stops or removes it.
C4_TeardownOnce ==
    \A c \in DOMAIN containers :
        ~(containers[c].manual /\ containers[c].expiry # {})

\* the ports handed out by allocations, bound or still to be bound
Allocated == UsedPorts(DockerPsPorts) \cup {workers[w].host_port : w \in Starting}

\* C5: concurrent allocations with no release in between return pairwise
\* distinct ports, and once every port of the range is handed out the next
\* allocation fails.
C5_AllocationsDistinct ==
    /\ \A v, w \in Starting : v # w => workers[v].host_port # workers[w].host_port
    /\ Allocated = PortRange => find_free_port(RangeStart, RangeEnd) = NoPort

\* C6: a start that fails at the run step leaves no partial state behind: the
\* containers and the timers are those before the step.
C6_RunFailureLeavesNothing ==
    [][\A w \in Workers :
          (/\ workers[w].pc = "run"
           /\ workers'[w].pc = "done"
           /\ workers'[w].code # OK)
          => (containers' = containers /\ timers' = timers)]_vars

Timed(c) == c \in DOMAIN containers /\ containers[c].ran /\ containers[c].time_alive > 0

C8_PersistentStaysRunning ==
    \A c \in DOMAIN containers :
        (containers[c].ran /\ containers[c].time_alive = 0)
        => /\ c \notin DOMAIN timers
           /\ ~containers[c].manual => Running(c)

\* C9: the image id delete holds when it goes on to remove the image is the
\* id of the image the instance was created from.
C9_ImageCapturedBeforeRemoval ==
    \A w \in Workers :
        workers[w].pc = "rmi"
        => workers[w].image_id = ImageIdOf(containers[workers[w].container_id].image)

\* C10: once the container removal of a delete has succeeded, the delete
\* reports success, whatever the image removal does.
C10_ImageFailureNotFatal ==
    [][\A w \in Workers :
          (workers[w].pc = "rmi" /\ workers'[w].pc = "done")
          => workers'[w].code = OK]_vars

\* a start has just ended in failure at worker w
StartFailed(w) ==
    /\ workers[w].pc # "done"
    /\ workers'[w].pc = "done"
    /\ workers'[w].op = "start"
    /\ workers'[w].code # OK

\* C11 (as claimed): a start that fails with a validation error or with port
\* exhaustion has issued no engine command with a side effect (pull, run).
C11_FailsBeforeSideEffects ==
    \A w \in Workers :
        (/\ workers[w].pc = "done" /\ workers[w].op = "start"
         /\ workers[w].raised \in {BadRequest, NotHttp})
        => workers[w].issued = {}

\* C11 (amended): a start that fails with a validation error has issued no
\* engine command; one that fails with port exhaustion has issued the pull and
\* nothing else; the failing step changes no container, image or timer.
C11_FailsBeforeRun ==
    [][\A w \in Workers :
          (StartFailed(w) /\ workers'[w].raised \in {BadRequest, NotHttp})
          => /\ workers'[w].raised = BadRequest => workers'[w].issued = {}
             /\ workers'[w].raised = NotHttp => workers'[w].issued = {"pull"}
             /\ containers' = containers
             /\ images' = images
             /\ timers' = timers]_vars

\* a start has failed with port exhaustion, its pull done
C11_Witness ==
    \E w \in Workers :
        /\ workers[w].pc = "done" /\ workers[w].op = "start"
        /\ workers[w].raised = NotHttp
        /\ workers[w].issued = {"pull"}
        /\ \A p \in PortRange : RunningOn(p) # {}

\* C12: a start reports its failures by kind: a validation error reaches the
\* caller as a client-side failure (400), a failed pull as not found (404),
\* both distinct from the server-side failure (500) of a failed run.
C12_FailuresByKind ==
    \A w \in Workers :
        (workers[w].pc = "done" /\ workers[w].op = "start")
        => /\ workers[w].raised = BadRequest => workers[w].code = BadRequest
           /\ workers[w].raised = NotFound => workers[w].code = NotFound

\* the ports of the range that no running container publishes
FreePorts == {p \in PortRange : RunningOn(p) = {}}

\* C13: allocation is first-fit: it returns the lowest port of the range that
\* no running instance publishes, and fails exactly when there is none.
C13_FirstFit ==
    [][\A w \in Workers :
          (workers[w].pc = "port" /\ workers'[w].pc # "port")
          => IF FreePorts = {}
             THEN workers'[w].pc = "done" /\ workers'[w].raised = NotHttp
             ELSE /\ workers'[w].pc = "run"
                  /\ workers'[w].host_port \in FreePorts
                  /\ \A q \in FreePorts : workers'[w].host_port <= q]_vars

\* a port scan passed over an occupied port and returned the next one
C13_Witness ==
    \E w \in Workers :
        /\ workers[w].pc = "run"
        /\ workers[w].host_port = RangeStart + 1
        /\ RunningOn(RangeStart) # {}

\* C14: the host port of an instance that was stopped or removed, and that no
\* running instance holds, is a candidate again: the scan returns it or a
\* lower port, and the scan fails only when running instances hold every port.
C14_PortsReleased ==
    /\ \A c \in DOMAIN containers :
          (~Running(c) /\ RunningOn(containers[c].host_port) = {})
          => /\ find_free_port(RangeStart, RangeEnd) # NoPort
             /\ find_free_port(RangeStart, RangeEnd) <= containers[c].host_port
    /\ find_free_port(RangeStart, RangeEnd) = NoPort => FreePorts = {}

\* the port of a removed instance is held by a later instance
C14_Witness ==
    \E c, d \in DOMAIN containers :
        /\ Removed(c) /\ Running(d) /\ c < d
        /\ containers[c].host_port = containers[d].host_port

\* the containers that exist under a name
Named(name) ==
    {c \in DOMAIN containers :
        containers[c].status # "removed" /\ containers[c].name = name}

\* C15: no two existing containers share a name: a start whose sanitized name
\* is that of an existing container fails with a server-side failure and
\* changes no container.
C15_NamesUnique ==
    /\ [](\A c \in DOMAIN containers : Exists(c) => Named(containers[c].name) = {c})
    /\ [][\A w \in Workers :
            (/\ workers[w].pc = "run" /\ workers'[w].pc # "run"
             /\ Named(workers[w].container_name) # {})
            => /\ workers'[w].pc = "done"
               /\ workers'[w].code = ServerError
               /\ containers' = containers
               /\ timers' = timers]_vars

\* a start has failed at docker run and no container was left behind by a
\* failed bind: the name was in use
C15_Witness ==
    /\ \E w \in Workers :
          /\ workers[w].pc = "done" /\ workers[w].op = "start"
          /\ workers[w].raised = ServerError /\ "run" \in workers[w].issued
    /\ \A c \in DOMAIN containers : containers[c].status # "created"
    /\ Cardinality(DOMAIN containers) = 1

\* the characters of [A-Za-z0-9_-]
Letters == {"x", "y", "X"}
Digits == {"0"}
NameChars == Letters \cup Digits \cup {"_", "-"}

\* C16: for a non-empty name sanitize_container_name returns a name of the
\* same length over [A-Za-z0-9_-], those characters unchanged and any other
\* replaced by "_"; the empty name is rejected.
C16_SanitizedName ==
    call.fn = "sanitize"
    => /\ call.rejected <=> call.name = << >>
       /\ ~call.rejected =>
            /\ Len(call.out_name) = Len(call.name)
            /\ \A i \in 1..Len(call.name) :
                  /\ call.out_name[i] \in NameChars
                  /\ call.name[i] \in NameChars => call.out_name[i] = call.name[i]
                  /\ call.name[i] \notin NameChars => call.out_name[i] = "_"

\* a name with a letter, a character outside the class and a hyphen
C16_Witness ==
    /\ call.fn = "sanitize"
    /\ call.name = <<"x", "!", "-">>
    /\ ~call.rejected
    /\ call.out_name = <<"x", "_", "-">>

\* 180 days, in seconds
HalfYear == 180 * 24 * 3600

C18_TimerHitsOwnInstance ==
    \A c \in DOMAIN containers : containers[c].expiry \subseteq {c}

\* C19: when shutdown or delete reports success for an id, the container of
\* that id no longer exists in the engine.
C19_SuccessMeansGone ==
    \A w \in Workers :
        (/\ workers[w].pc = "done"
         /\ workers[w].op \in {"shutdown", "delete"}
         /\ workers[w].code = OK)
        => Removed(workers[w].container_id)

\* a shutdown has reported success
C19_Witness ==
    \E w \in Workers :
        /\ workers[w].pc = "done" /\ workers[w].op = "shutdown"
        /\ workers[w].code = OK
        /\ Removed(workers[w].container_id)

====
